---- MODULE Spec2Model ----
(***************************************************************************)
(* Model of src/app.py: the SQLite-backed Database class (clients, users   *)
(* and app_settings tables) and the ClientApp form handlers that use it.   *)
(*                                                                         *)
(* A Python str is modelled as a sequence of chunks (a chunk is a blank    *)
(* " " or a run of non-blank characters), so that str.strip() and the      *)
(* f-string formatting of identifiers are computed, not assumed.  A Python *)
(* dict is modelled as a sequence of <<key, value>> pairs with pairwise    *)
(* distinct keys, in insertion order.                                      *)
(***************************************************************************)
EXTENDS Integers, Sequences, FiniteSets, TLC

VARIABLES
    clients,          \* rows of table clients (a set of records, one per row)
    users,            \* rows of table users
    app_settings,     \* rows of table app_settings
    call,             \* the last Database method invoked, its arguments, its outcome
    ui,               \* "login" before on_login_success, "main" after _build_ui
    form_kundennummer,\* ClientApp.form_vars["kundennummer"]
    extra_field_rows, \* number of entry pairs in ClientApp.extra_field_rows
    tree,             \* rows shown in ClientApp.tree
    notice,           \* the last messagebox shown
    company_name,     \* ClientApp.company_name
    logo_path,        \* ClientApp.logo_path
    accent_color,     \* ClientApp.accent_color
    contract,         \* the ContractWindow, once one is open
    strokes,          \* SignaturePad.strokes
    current_stroke,   \* SignaturePad.current_stroke
    pdf,              \* the file _export_pdf has written
    xlsx              \* the file _export_excel has written

docvars == <<company_name, logo_path, accent_color, contract, strokes,
             current_stroke, pdf, xlsx>>

vars == <<clients, users, app_settings, call, ui, form_kundennummer,
          extra_field_rows, tree, notice, docvars>>

dbvars == <<clients, users, app_settings>>
uivars == <<ui, form_kundennummer, extra_field_rows, tree, notice, docvars>>

----------------------------------------------------------------------------
(* Bounds of the model *)

MaxClients == 3
MaxUsers == 2
MaxExtraRows == 1

----------------------------------------------------------------------------
(* Python values *)

\* None / SQL NULL: no str has a chunk of this shape.
NULL == <<"NULL">>

\* truthiness of an Optional[str]
Falsy(x) == x = NULL \/ x = <<>>

\* x or ""
OrEmpty(x) == IF Falsy(x) THEN <<>> ELSE x

RECURSIVE LStrip(_)
LStrip(s) == IF s # <<>> /\ Head(s) = " " THEN LStrip(Tail(s)) ELSE s

RECURSIVE RStrip(_)
RStrip(s) ==
    IF s # <<>> /\ s[Len(s)] = " " THEN RStrip(SubSeq(s, 1, Len(s) - 1)) ELSE s

\* str.strip()
Strip(s) == RStrip(LStrip(s))

\* dict.keys()
Keys(d) == [i \in 1..Len(d) |-> d[i][1]]

KeySet(d) == {d[i][1] : i \in 1..Len(d)}

\* dict.get(k) (None when the key is absent)
Get(d, k) ==
    IF k \in KeySet(d)
    THEN d[CHOOSE i \in 1..Len(d) : d[i][1] = k][2]
    ELSE NULL

\* d[k] = v
SetItem(d, k, v) ==
    IF k \in KeySet(d)
    THEN [i \in 1..Len(d) |-> IF d[i][1] = k THEN <<k, v>> ELSE d[i]]
    ELSE Append(d, <<k, v>>)

\* d.update(e)
RECURSIVE Update(_, _)
Update(d, e) ==
    IF e = <<>> THEN d
    ELSE Update(SetItem(d, Head(e)[1], Head(e)[2]), Tail(e))

----------------------------------------------------------------------------
(* Column names of table clients *)

kKundennummer == <<"kundennummer">>
kMa == <<"ma">>
kName == <<"name">>
kStrasse == <<"strasse">>
kPlz == <<"plz">>
kOrt == <<"ort">>
kGeburtsdatum == <<"geburtsdatum">>
kPg == <<"pg">>
kVersicherungsnummer == <<"versicherungsnummer">>
kPflegekasse == <<"pflegekasse">>
kTelefon == <<"telefon">>
kPreise == <<"preise">>
kFahrtkosten == <<"fahrtkosten">>
kBemerkungen == <<"bemerkungen">>

FixedKeys ==
    <<kKundennummer, kMa, kName, kStrasse, kPlz, kOrt, kGeburtsdatum, kPg,
      kVersicherungsnummer, kPflegekasse, kTelefon, kPreise, kFahrtkosten,
      kBemerkungen>>

FixedKeySet == {FixedKeys[i] : i \in 1..Len(FixedKeys)}

----------------------------------------------------------------------------
(* Identifier formatting: f"K-{next_id:05d}" *)

DigitChars == <<"0", "1", "2", "3", "4", "5", "6", "7", "8", "9">>

RECURSIVE Digits(_)
Digits(n) ==
    IF n < 10 THEN <<DigitChars[n + 1]>>
    ELSE Append(Digits(n \div 10), DigitChars[(n % 10) + 1])

RECURSIVE ZeroPad(_, _)
ZeroPad(s, w) == IF Len(s) >= w THEN s ELSE ZeroPad(<<"0">> \o s, w)

\* faulty variant: the number padded to 4 digits, f"K-{next_id:04d}"
FormatKundennummerWidth4(n) == <<"K", "-">> \o ZeroPad(Digits(n), 4)

FormatKundennummer(n) == <<"K", "-">> \o ZeroPad(Digits(n), 5)

----------------------------------------------------------------------------
(* json.dumps / json.loads of a Dict[str, str] *)

json_dumps(d) ==
    LET RECURSIVE Flat(_)
        Flat(e) == IF e = <<>> THEN <<>>
                   ELSE <<Head(e)[1], Head(e)[2]>> \o Flat(Tail(e))
    IN <<<<"{">>>> \o Flat(d) \o <<<<"}">>>>

json_loads(b) ==
    LET body == SubSeq(b, 2, Len(b) - 1)
        RECURSIVE Pairs(_)
        Pairs(s) == IF Len(s) < 2 THEN <<>>
                    ELSE <<<<s[1], s[2]>>>> \o Pairs(SubSeq(s, 3, Len(s)))
    IN Update(<<>>, Pairs(body))

----------------------------------------------------------------------------
(* Table clients *)

\* SELECT MAX(id) FROM clients (NULL, read as 0 by "row[0] or 0", when empty)
MaxIdOf(rows) ==
    IF rows = {} THEN 0
    ELSE CHOOSE m \in {r.id : r \in rows} : \A r \in rows : r.id <= m

MaxId == MaxIdOf(clients)

\* the value _next_kundennummer() returns for table rows
NextKundennummerOf(rows) == FormatKundennummer(MaxIdOf(rows) + 1)

_next_kundennummer == NextKundennummerOf(clients)

\* the row save_client inserts; id is the AUTOINCREMENT key
NewRow(data, extra_fields) ==
    [id |-> MaxId + 1,
     kundennummer |-> IF Falsy(Get(data, kKundennummer))
                      THEN _next_kundennummer
                      ELSE Get(data, kKundennummer),
     ma |-> Get(data, kMa),
     name |-> Get(data, kName),
     strasse |-> Get(data, kStrasse),
     plz |-> Get(data, kPlz),
     ort |-> Get(data, kOrt),
     geburtsdatum |-> Get(data, kGeburtsdatum),
     pg |-> Get(data, kPg),
     versicherungsnummer |-> Get(data, kVersicherungsnummer),
     pflegekasse |-> Get(data, kPflegekasse),
     telefon |-> Get(data, kTelefon),
     preise |-> Get(data, kPreise),
     fahrtkosten |-> Get(data, kFahrtkosten),
     bemerkungen |-> Get(data, kBemerkungen),
     extra_fields |-> json_dumps(extra_fields)]

\* kundennummer TEXT UNIQUE NOT NULL
ViolatesUnique(row) == \E r \in clients : r.kundennummer = row.kundennummer

\* faulty variant: the column declared without UNIQUE
InsertClientNotUnique(row) == clients \cup {row}

\* faulty variant: INSERT OR REPLACE
InsertClientOrReplace(row) ==
    {r \in clients : r.kundennummer # row.kundennummer} \cup {row}

\* the INSERT of save_client: the new table, or the old one when the
\* statement raises sqlite3.IntegrityError and is rolled back
InsertClient(row) == IF ViolatesUnique(row) THEN clients ELSE clients \cup {row}

InsertOutcome(row) == IF ViolatesUnique(row) THEN "IntegrityError" ELSE "ok"

\* faulty variant: client.update(extra) left out
ClientOfFixedOnly(row) ==
    << <<kKundennummer, row.kundennummer>>,
       <<kMa, OrEmpty(row.ma)>>,
       <<kName, OrEmpty(row.name)>>,
       <<kStrasse, OrEmpty(row.strasse)>>,
       <<kPlz, OrEmpty(row.plz)>>,
       <<kOrt, OrEmpty(row.ort)>>,
       <<kGeburtsdatum, OrEmpty(row.geburtsdatum)>>,
       <<kPg, OrEmpty(row.pg)>>,
       <<kVersicherungsnummer, OrEmpty(row.versicherungsnummer)>>,
       <<kPflegekasse, OrEmpty(row.pflegekasse)>>,
       <<kTelefon, OrEmpty(row.telefon)>>,
       <<kPreise, OrEmpty(row.preise)>>,
       <<kFahrtkosten, OrEmpty(row.fahrtkosten)>>,
       <<kBemerkungen, OrEmpty(row.bemerkungen)>> >>

\* the dict list_clients builds from one row
ClientOf(row) ==
    Update(
        << <<kKundennummer, row.kundennummer>>,
           <<kMa, OrEmpty(row.ma)>>,
           <<kName, OrEmpty(row.name)>>,
           <<kStrasse, OrEmpty(row.strasse)>>,
           <<kPlz, OrEmpty(row.plz)>>,
           <<kOrt, OrEmpty(row.ort)>>,
           <<kGeburtsdatum, OrEmpty(row.geburtsdatum)>>,
           <<kPg, OrEmpty(row.pg)>>,
           <<kVersicherungsnummer, OrEmpty(row.versicherungsnummer)>>,
           <<kPflegekasse, OrEmpty(row.pflegekasse)>>,
           <<kTelefon, OrEmpty(row.telefon)>>,
           <<kPreise, OrEmpty(row.preise)>>,
           <<kFahrtkosten, OrEmpty(row.fahrtkosten)>>,
           <<kBemerkungen, OrEmpty(row.bemerkungen)>> >>,
        json_loads(IF Falsy(row.extra_fields) THEN json_dumps(<<>>)
                   ELSE row.extra_fields))

\* faulty variant: ORDER BY id ASC
RECURSIVE OrderByIdAsc(_)
OrderByIdAsc(rows) ==
    IF rows = {} THEN <<>>
    ELSE LET low == CHOOSE r \in rows : \A q \in rows : r.id <= q.id
         IN <<low>> \o OrderByIdAsc(rows \ {low})

\* SELECT ... FROM clients ORDER BY id DESC
RECURSIVE OrderByIdDesc(_)
OrderByIdDesc(rows) ==
    IF rows = {} THEN <<>>
    ELSE LET top == CHOOSE r \in rows : \A q \in rows : q.id <= r.id
         IN <<top>> \o OrderByIdDesc(rows \ {top})

ListOf(rows) ==
    LET sorted == OrderByIdDesc(rows)
    IN [i \in 1..Len(sorted) |-> ClientOf(sorted[i])]

list_clients == ListOf(clients)

----------------------------------------------------------------------------
(* Inputs of the Database methods *)

Anna == <<"Anna">>
Bob == <<"Bob">>
Ulm == <<"Ulm">>
Golf == <<"golf">>
kHobby == <<"Hobby">>

\* data dicts a caller of save_client passes: identifier omitted, empty,
\* equal to the first generated one, or ahead of the generated ones
DataInputs ==
    { << <<kName, Anna>> >>,
      << <<kKundennummer, <<>> >>, <<kName, Anna>>, <<kOrt, Ulm>> >>,
      << <<kKundennummer, FormatKundennummer(1)>>, <<kName, Bob>> >>,
      << <<kKundennummer, FormatKundennummer(3)>>, <<kName, <<>> >>,
         <<kOrt, Ulm>> >> }

ExtraInputs ==
    { <<>>,
      << <<kHobby, Golf>> >>,
      << <<kKundennummer, FormatKundennummer(1)>> >> }

NoCall == [op |-> "none", args |-> <<>>, raised |-> "", ret |-> NULL]

DEFAULT_ACCENT == <<"#1f2937">>

\* no ContractWindow has been opened
NoWindow == [open |-> FALSE]

\* no file has been written
NoFile == [written |-> FALSE]

----------------------------------------------------------------------------
(* Database: table clients *)

Init ==
    /\ clients = {}
    /\ users = {}
    /\ app_settings = {}
    /\ call = NoCall
    /\ ui = "login"
    /\ form_kundennummer = NULL
    /\ extra_field_rows = 0
    /\ tree = <<>>
    /\ notice = "none"
    /\ company_name = <<>>
    /\ logo_path = <<>>
    /\ accent_color = DEFAULT_ACCENT
    /\ contract = NoWindow
    /\ strokes = <<>>
    /\ current_stroke = <<>>
    /\ pdf = NoFile
    /\ xlsx = NoFile

\* Database.save_client(data, extra_fields)
save_client(data, extra_fields) ==
    LET row == NewRow(data, extra_fields)
    IN /\ Cardinality(clients) < MaxClients
       /\ clients' = InsertClient(row)
       /\ call' = [op |-> "save_client", args |-> <<data, extra_fields>>,
                   raised |-> IF InsertOutcome(row) = "ok" THEN ""
                              ELSE InsertOutcome(row),
                   ret |-> NULL]
       /\ UNCHANGED <<users, app_settings>>
       /\ UNCHANGED uivars

SaveClient == \E d \in DataInputs, e \in ExtraInputs : save_client(d, e)

\* Database._next_kundennummer()
NextKundennummer ==
    /\ call' = [op |-> "_next_kundennummer", args |-> <<>>, raised |-> "",
                ret |-> _next_kundennummer]
    /\ UNCHANGED dbvars
    /\ UNCHANGED uivars

\* Database.list_clients()
ListClients ==
    /\ call' = [op |-> "list_clients", args |-> <<>>, raised |-> "",
                ret |-> list_clients]
    /\ UNCHANGED dbvars
    /\ UNCHANGED uivars

Next == SaveClient \/ NextKundennummer \/ ListClients

Spec == Init /\ [][Next]_vars

----------------------------------------------------------------------------
(* Database: table users *)

PBKDF2Iterations == 120000

\* hashlib.pbkdf2_hmac("sha256", password, salt, 120000).hex(): the digest is
\* kept symbolic, a deterministic function of (password, salt, iterations)
_hash_password(password, salt) ==
    [alg |-> "sha256", password |-> password, salt |-> salt,
     iterations |-> PBKDF2Iterations]

Alice == <<"alice">>
Carol == <<"carol">>
Pw1 == <<"pw1">>
Pw2 == <<"wrong">>

Usernames == {Alice, Bob, Carol}
Passwords == {Pw1, Pw2}
\* values secrets.token_hex(16) may return
Salts == {<<"5f">>, <<"c3">>}

MaxUserId(us) ==
    IF us = {} THEN 0
    ELSE CHOOSE m \in {r.id : r \in us} : \A r \in us : r.id <= m

\* username TEXT UNIQUE NOT NULL
UsernameTaken(us, username) == \E r \in us : r.username = username

\* faulty variant: INSERT OR REPLACE
InsertUserOrReplace(us, username, password_hash, salt) ==
    {r \in us : r.username # username}
        \cup {[id |-> MaxUserId(us) + 1, username |-> username,
               password_hash |-> password_hash, salt |-> salt]}

\* the INSERT of create_user: the new table, or the old one when the
\* statement raises sqlite3.IntegrityError
InsertUser(us, username, password_hash, salt) ==
    IF UsernameTaken(us, username) THEN us
    ELSE us \cup {[id |-> MaxUserId(us) + 1, username |-> username,
                   password_hash |-> password_hash, salt |-> salt]}

\* the value create_user returns: False when IntegrityError is caught
CreateUserResult(us, username) == ~UsernameTaken(us, username)

\* faulty variant: the hash recomputed with the username in place of the stored salt
ValidateUserResultWrongSalt(us, username, password) ==
    LET rows == {r \in us : r.username = username}
    IN IF rows = {} THEN FALSE
       ELSE LET row == CHOOSE r \in rows : TRUE
            IN row.password_hash = _hash_password(password, username)

\* the value validate_user returns for table us
ValidateUserResult(us, username, password) ==
    LET rows == {r \in us : r.username = username}
    IN IF rows = {} THEN FALSE
       ELSE LET row == CHOOSE r \in rows : TRUE
            IN row.password_hash = _hash_password(password, row.salt)

\* Database.create_user(username, password); salt is secrets.token_hex(16)
create_user(username, password, salt) ==
    /\ Cardinality(users) < MaxUsers \/ UsernameTaken(users, username)
    /\ users' = InsertUser(users, username, _hash_password(password, salt), salt)
    /\ call' = [op |-> "create_user", args |-> <<username, password>>,
                raised |-> "", ret |-> CreateUserResult(users, username)]
    /\ UNCHANGED <<clients, app_settings>>
    /\ UNCHANGED uivars

CreateUser ==
    \E u \in Usernames, p \in Passwords, s \in Salts : create_user(u, p, s)

\* Database.validate_user(username, password)
validate_user(username, password) ==
    /\ call' = [op |-> "validate_user", args |-> <<username, password>>,
                raised |-> "",
                ret |-> ValidateUserResult(users, username, password)]
    /\ UNCHANGED dbvars
    /\ UNCHANGED uivars

ValidateUser == \E u \in Usernames, p \in Passwords : validate_user(u, p)

NextAuth == CreateUser \/ ValidateUser

SpecAuth == Init /\ [][NextAuth]_vars

----------------------------------------------------------------------------
(* Database: table app_settings *)

kCompanyName == <<"company_name">>
kLogoPath == <<"logo_path">>
kAccentColor == <<"accent_color">>

SettingKeys == {kCompanyName, kLogoPath, kAccentColor}
SettingValues == {<<>>, <<"Pflege", " ", "GmbH">>, <<"#0ea5e9">>}
SettingDefaults == {<<>>, DEFAULT_ACCENT}

\* faulty variant: INSERT ... ON CONFLICT(key) DO NOTHING
UpsertDoNothing(rows, key, value) ==
    IF \E r \in rows : r.key = key THEN rows
    ELSE rows \cup {[key |-> key, value |-> value]}

\* INSERT ... ON CONFLICT(key) DO UPDATE SET value=excluded.value
Upsert(rows, key, value) ==
    IF \E r \in rows : r.key = key
    THEN {IF r.key = key THEN [r EXCEPT !.value = value] ELSE r : r \in rows}
    ELSE rows \cup {[key |-> key, value |-> value]}

\* the value load_setting returns for table rows
LoadSettingResult(rows, key, default) ==
    LET found == {r \in rows : r.key = key}
    IN IF found # {} THEN (CHOOSE r \in found : TRUE).value ELSE default

\* Database.save_setting(key, value)
save_setting(key, value) ==
    /\ app_settings' = Upsert(app_settings, key, value)
    /\ call' = [op |-> "save_setting", args |-> <<key, value>>,
                raised |-> "", ret |-> NULL]
    /\ UNCHANGED <<clients, users>>
    /\ UNCHANGED uivars

SaveSetting == \E k \in SettingKeys, v \in SettingValues : save_setting(k, v)

\* Database.load_setting(key, default)
load_setting(key, default) ==
    /\ call' = [op |-> "load_setting", args |-> <<key, default>>,
                raised |-> "",
                ret |-> LoadSettingResult(app_settings, key, default)]
    /\ UNCHANGED dbvars
    /\ UNCHANGED uivars

LoadSetting == \E k \in SettingKeys, d \in SettingDefaults : load_setting(k, d)

NextSettings == SaveSetting \/ LoadSetting

SpecSettings == Init /\ [][NextSettings]_vars

----------------------------------------------------------------------------
(* Reading identifiers back: the numeric suffix of "K-NNNNN" *)

DigitValue(c) == CHOOSE d \in 0..9 : DigitChars[d + 1] = c

RECURSIVE ParseNat(_)
ParseNat(s) ==
    IF s = <<>> THEN 0
    ELSE 10 * ParseNat(SubSeq(s, 1, Len(s) - 1)) + DigitValue(s[Len(s)])

SuffixOf(kn) == ParseNat(SubSeq(kn, 3, Len(kn)))

\* highest numeric suffix among the stored identifiers, 0 for an empty store
MaxSuffix ==
    IF clients = {} THEN 0
    ELSE CHOOSE m \in {SuffixOf(r.kundennummer) : r \in clients} :
             \A r \in clients : SuffixOf(r.kundennummer) <= m

\* the identifier a data dict supplies, if any
Supplied(data) == ~Falsy(Get(data, kKundennummer))

----------------------------------------------------------------------------
(* AuthWindow and ClientApp: the handlers of the login window and the form *)

\* what the user has typed into the login window
RawUsernames == {<<>>, <<" ", "alice">>}
RawPasswords == {<<"pw1", " ">>, <<" ">>}

\* what the user has typed into the form: (name, ort)
FormInputs ==
    { << <<" ">>, Ulm >>,
      << <<" ", "Anna", " ">>, <<"Ulm", " ">> >> }

\* what the user has typed into one extra-field row: (name, value);
\* "Feldname" is the text _add_extra_field puts into the name entry
ExtraRowInputs ==
    { << <<"Feldname">>, <<"golf", " ">> >>,
      << <<" ">>, Golf >>,
      << <<" ", "kundennummer">>, Golf >> }

\* the values _load_clients inserts into the tree for one client
TreeRow(client) ==
    <<Get(client, kKundennummer), Get(client, kName), Get(client, kPlz),
      Get(client, kOrt), Get(client, kTelefon), Get(client, kPg),
      Get(client, kPflegekasse)>>

TreeOf(listed) == [i \in 1..Len(listed) |-> TreeRow(listed[i])]

\* data = {key: var.get().strip() for key, var in self.form_vars.items()}
FormData(kundennummer, name, ort) ==
    << <<kKundennummer, Strip(kundennummer)>>,
       <<kMa, Strip(<<>>)>>,
       <<kName, Strip(name)>>,
       <<kStrasse, Strip(<<>>)>>,
       <<kPlz, Strip(<<>>)>>,
       <<kOrt, Strip(ort)>>,
       <<kGeburtsdatum, Strip(<<>>)>>,
       <<kPg, Strip(<<>>)>>,
       <<kVersicherungsnummer, Strip(<<>>)>>,
       <<kPflegekasse, Strip(<<>>)>>,
       <<kTelefon, Strip(<<>>)>>,
       <<kPreise, Strip(<<>>)>>,
       <<kFahrtkosten, Strip(<<>>)>>,
       <<kBemerkungen, Strip(<<>>)>> >>

\* the extra_fields dict _save_client collects from the extra-field rows
RECURSIVE CollectExtra(_, _)
CollectExtra(rows, acc) ==
    IF rows = <<>> THEN acc
    ELSE LET name == Strip(Head(rows)[1])
             value == Strip(Head(rows)[2])
         IN CollectExtra(Tail(rows),
                         IF name # <<>> THEN SetItem(acc, name, value) ELSE acc)

\* faulty variant: if data.get("name") is None
NameMissingIsNone(data) == Get(data, kName) = NULL

\* if not data.get("name")
NameMissing(data) == Falsy(Get(data, kName))

WarnName == "warning: Bitte geben Sie mindestens den Namen des Kunden ein."

\* AuthWindow._handle_register
_handle_register(rawUsername, rawPassword, salt) ==
    LET username == Strip(rawUsername)
        password == Strip(rawPassword)
    IN /\ ui = "login"
       /\ IF username = <<>> \/ password = <<>>
          THEN /\ notice' = "warning: Bitte Benutzername und Passwort eingeben."
               /\ UNCHANGED <<users, call>>
          ELSE /\ users' = InsertUser(users, username,
                                      _hash_password(password, salt), salt)
               /\ call' = [op |-> "create_user", args |-> <<username, password>>,
                           raised |-> "",
                           ret |-> CreateUserResult(users, username)]
               /\ notice' = IF CreateUserResult(users, username)
                            THEN "info: Konto erstellt."
                            ELSE "error: Benutzername bereits vergeben."
       /\ UNCHANGED <<clients, app_settings, ui, form_kundennummer,
                      extra_field_rows, tree>>
       /\ UNCHANGED docvars

HandleRegister ==
    \E u \in RawUsernames, p \in RawPasswords, s \in Salts :
        _handle_register(u, p, s)

\* AuthWindow._handle_login; a valid login runs ClientApp.on_login_success,
\* whose _build_ui fills the identifier field and loads the tree
_handle_login(rawUsername, rawPassword) ==
    LET username == Strip(rawUsername)
        password == Strip(rawPassword)
    IN /\ ui = "login"
       /\ IF username = <<>> \/ password = <<>>
          THEN /\ notice' = "warning: Bitte Benutzername und Passwort eingeben."
               /\ UNCHANGED <<call, ui, form_kundennummer, tree>>
          ELSE IF ValidateUserResult(users, username, password)
          THEN /\ ui' = "main"
               /\ form_kundennummer' = _next_kundennummer
               /\ \E listed \in {list_clients} :
                      /\ tree' = TreeOf(listed)
                      /\ call' = [op |-> "list_clients", args |-> <<>>,
                                  raised |-> "", ret |-> listed]
               /\ UNCHANGED notice
          ELSE /\ notice' = "error: Ungueltige Zugangsdaten."
               /\ call' = [op |-> "validate_user",
                           args |-> <<username, password>>,
                           raised |-> "", ret |-> FALSE]
               /\ UNCHANGED <<ui, form_kundennummer, tree>>
       /\ UNCHANGED <<clients, users, app_settings, extra_field_rows>>
       /\ UNCHANGED docvars

HandleLogin ==
    \E u \in RawUsernames, p \in RawPasswords : _handle_login(u, p)

\* ClientApp._add_extra_field
_add_extra_field ==
    /\ ui = "main"
    /\ extra_field_rows < MaxExtraRows
    /\ extra_field_rows' = extra_field_rows + 1
    /\ UNCHANGED <<clients, users, app_settings, call, ui, form_kundennummer,
                   tree, notice>>
    /\ UNCHANGED docvars

\* ClientApp._save_client; form is what the name and ort entries hold, rows
\* what the extra-field rows hold
_save_client(form, rows) ==
    /\ ui = "main"
    /\ Cardinality(clients) < MaxClients
    /\ \E data \in {FormData(form_kundennummer, form[1], form[2])} :
         IF NameMissing(data)
         THEN /\ notice' = WarnName
              /\ UNCHANGED <<clients, call, form_kundennummer,
                             extra_field_rows, tree>>
         ELSE \E extra_fields \in {CollectExtra(rows, <<>>)} :
              \E row \in {NewRow(data, extra_fields)} :
                IF InsertOutcome(row) # "ok"
                THEN \* the exception leaves the handler before the messagebox
                     /\ call' = [op |-> "save_client",
                                 args |-> <<data, extra_fields>>,
                                 raised |-> InsertOutcome(row), ret |-> NULL]
                     /\ UNCHANGED <<clients, form_kundennummer,
                                    extra_field_rows, tree, notice>>
                ELSE /\ clients' = InsertClient(row)
                     /\ notice' = "info: Kunde gespeichert."
                     /\ form_kundennummer' = NextKundennummerOf(clients')
                     /\ extra_field_rows' = 0
                     /\ \E listed \in {ListOf(clients')} :
                            /\ tree' = TreeOf(listed)
                            /\ call' = [op |-> "list_clients", args |-> <<>>,
                                        raised |-> "", ret |-> listed]
    /\ UNCHANGED <<users, app_settings, ui>>
    /\ UNCHANGED docvars

SaveClientForm ==
    \E form \in FormInputs :
        \E rows \in [1..extra_field_rows -> ExtraRowInputs] :
            _save_client(form, rows)

\* ClientApp._load_clients (button "Liste aktualisieren")
_load_clients ==
    /\ ui = "main"
    /\ \E listed \in {list_clients} :
           /\ tree' = TreeOf(listed)
           /\ call' = [op |-> "list_clients", args |-> <<>>, raised |-> "",
                       ret |-> listed]
    /\ UNCHANGED <<clients, users, app_settings, ui, form_kundennummer,
                   extra_field_rows, notice>>
    /\ UNCHANGED docvars

NextApp ==
    \/ HandleRegister
    \/ HandleLogin
    \/ _add_extra_field
    \/ SaveClientForm
    \/ _load_clients

SpecApp == Init /\ [][NextApp]_vars

\* records written through Database.save_client without an identifier (and
\* with extra fields of their own) before the login: the store file outlives
\* the session
SaveClientOmitted ==
    /\ ui = "login"
    /\ \E d \in {x \in DataInputs : ~Supplied(x)} :
           \E e \in {x \in ExtraInputs : KeySet(x) \cap FixedKeySet = {}} :
               save_client(d, e)

NextAuto == SaveClientOmitted \/ NextApp

SpecAuto == Init /\ [][NextAuto]_vars

----------------------------------------------------------------------------
(* SettingsWindow and ContractWindow *)

\* what the user has typed into the branding window
RawCompanyNames == {<<" ">>, <<"Pflege", " ", "GmbH", " ">>}
RawLogoPaths == {<<>>, <<"logo.png">>}
RawColors == {<<" ">>}

\* SettingsWindow._save
_save(rawCompany, rawLogo, rawColor) ==
    /\ ui = "main"
    /\ \E saved \in
           {Upsert(Upsert(Upsert(app_settings, kCompanyName, Strip(rawCompany)),
                          kLogoPath, Strip(rawLogo)),
                   kAccentColor,
                   IF Strip(rawColor) = <<>> THEN DEFAULT_ACCENT
                   ELSE Strip(rawColor))} :
           /\ app_settings' = saved
           /\ accent_color' = LoadSettingResult(saved, kAccentColor, DEFAULT_ACCENT)
           /\ company_name' = LoadSettingResult(saved, kCompanyName, <<>>)
           /\ logo_path' = LoadSettingResult(saved, kLogoPath, <<>>)
           /\ call' = [op |-> "load_setting", args |-> <<kLogoPath, <<>> >>,
                       raised |-> "",
                       ret |-> LoadSettingResult(saved, kLogoPath, <<>>)]
    /\ notice' = "info: Branding aktualisiert. Starten Sie neu, um Farben vollstaendig zu uebernehmen."
    /\ UNCHANGED <<clients, users, ui, form_kundennummer, extra_field_rows,
                   tree, contract, strokes, current_stroke, pdf, xlsx>>

SaveBranding ==
    \E c \in RawCompanyNames, l \in RawLogoPaths, col \in RawColors :
        _save(c, l, col)

\* dict.get(k, default)
GetOr(d, k, default) == IF k \in KeySet(d) THEN Get(d, k) ELSE default

\* "\n".join(lines)
RECURSIVE JoinLines(_)
JoinLines(lines) ==
    IF lines = <<>> THEN <<>>
    ELSE IF Len(lines) = 1 THEN lines[1]
    ELSE lines[1] \o <<"\n">> \o JoinLines(Tail(lines))

Sentence1 ==
    <<
      "Dieser", " ", "Vertrag", " ", "bestaetigt", " ", "die", " ",
      "Erbringung", " ", "der", " ", "vereinbarten", " ", "Leistungen." >>

Sentence2 ==
    <<
      "Die", " ", "Konditionen", " ", "richten", " ", "sich", " ", "nach",
      " ", "den", " ", "hinterlegten", " ", "Preisen", " ", "und", " ",
      "Fahrtkosten." >>

Sentence3 ==
    <<
      "Bitte", " ", "pruefen", " ", "Sie", " ", "die", " ", "Angaben", " ",
      "und", " ", "unterzeichnen", " ", "Sie", " ", "digital." >>

\* faulty variant: the Anbieter line appended whether or not a company name
\* is set (if self.company_name is not None)
ContractLinesAlwaysAnbieter(client, company, logo) ==
    << <<"Kundennummer:", " ">> \o GetOr(client, kKundennummer, <<>>),
       <<"Name:", " ">> \o GetOr(client, kName, <<>>),
       <<"Strasse", " ", "/", " ", "Ort:", " ">>
           \o GetOr(client, kStrasse, <<>>) \o <<",", " ">>
           \o GetOr(client, kPlz, <<>>) \o <<" ">>
           \o GetOr(client, kOrt, <<>>),
       <<"Geburtsdatum:", " ">> \o GetOr(client, kGeburtsdatum, <<>>),
       <<"Pflegegrad:", " ">> \o GetOr(client, kPg, <<>>),
       <<"Versicherungs-Nr.:", " ">>
           \o GetOr(client, kVersicherungsnummer, <<>>),
       <<"Pflegekasse:", " ">> \o GetOr(client, kPflegekasse, <<>>),
       <<>>,
       Sentence1,
       Sentence2,
       Sentence3 >>
    \o << <<>>, <<"Anbieter:", " ">> \o company >>
    \o (IF logo # <<>> THEN << <<"Logo-Datei:", " ">> \o logo >> ELSE <<>>)

\* the list lines of ContractWindow._compose_contract_text
ContractLines(client, company, logo) ==
    << <<"Kundennummer:", " ">> \o GetOr(client, kKundennummer, <<>>),
       <<"Name:", " ">> \o GetOr(client, kName, <<>>),
       <<"Strasse", " ", "/", " ", "Ort:", " ">>
           \o GetOr(client, kStrasse, <<>>) \o <<",", " ">>
           \o GetOr(client, kPlz, <<>>) \o <<" ">>
           \o GetOr(client, kOrt, <<>>),
       <<"Geburtsdatum:", " ">> \o GetOr(client, kGeburtsdatum, <<>>),
       <<"Pflegegrad:", " ">> \o GetOr(client, kPg, <<>>),
       <<"Versicherungs-Nr.:", " ">>
           \o GetOr(client, kVersicherungsnummer, <<>>),
       <<"Pflegekasse:", " ">> \o GetOr(client, kPflegekasse, <<>>),
       <<>>,
       Sentence1,
       Sentence2,
       Sentence3 >>
    \o (IF company # <<>>
        THEN << <<>>, <<"Anbieter:", " ">> \o company >> ELSE <<>>)
    \o (IF logo # <<>> THEN << <<"Logo-Datei:", " ">> \o logo >> ELSE <<>>)

\* ContractWindow._compose_contract_text
_compose_contract_text(client, company, logo) ==
    JoinLines(ContractLines(client, company, logo))

\* next((c for c in list_clients() if c.get("kundennummer") == kn), None):
\* the position of the first match in listed, 0 for None
FirstMatch(listed, kn) ==
    LET hits == {i \in 1..Len(listed) : Get(listed[i], kKundennummer) = kn}
    IN IF hits = {} THEN 0 ELSE CHOOSE i \in hits : \A j \in hits : i <= j

\* ClientApp._open_contract_window; selected is the position of the focused
\* tree item, 0 when none has the focus
_open_contract_window(selected) ==
    /\ ui = "main"
    /\ IF selected = 0
       THEN /\ notice' = "warning: Bitte waehlen Sie einen Kunden aus."
            /\ UNCHANGED <<call, contract, strokes, current_stroke>>
       ELSE \E listed \in {list_clients} :
            \E found \in {FirstMatch(listed, tree[selected][1])} :
              /\ call' = [op |-> "list_clients", args |-> <<>>, raised |-> "",
                          ret |-> listed]
              /\ IF found = 0
                 THEN /\ notice' = "error: Kunde nicht gefunden."
                      /\ UNCHANGED <<contract, strokes, current_stroke>>
                 ELSE /\ contract' =
                             [open |-> TRUE,
                              selected |-> selected,
                              client |-> listed[found],
                              company_name |-> company_name,
                              logo_path |-> logo_path,
                              accent_color |-> accent_color,
                              info_text |-> _compose_contract_text(
                                  listed[found], company_name, logo_path)]
                      /\ strokes' = <<>>
                      /\ current_stroke' = <<>>
                      /\ UNCHANGED notice
    /\ UNCHANGED <<clients, users, app_settings, ui, form_kundennummer,
                   extra_field_rows, tree, company_name, logo_path,
                   accent_color, pdf, xlsx>>

OpenContractWindow == \E sel \in 0..Len(tree) : _open_contract_window(sel)

\* a data dict with every fixed field but the identifier filled in
FullData ==
    << <<kMa, <<"MA7">> >>,
       <<kName, <<"Anna", " ", "Berg">> >>,
       <<kStrasse, <<"Hauptstr.", " ", "5">> >>,
       <<kPlz, <<"89073">> >>,
       <<kOrt, Ulm>>,
       <<kGeburtsdatum, <<"01.02.1940">> >>,
       <<kPg, <<"3">> >>,
       <<kVersicherungsnummer, <<"A123456789">> >>,
       <<kPflegekasse, <<"AOK">> >>,
       <<kTelefon, <<"0731", " ", "1234">> >>,
       <<kPreise, <<"Standard">> >>,
       <<kFahrtkosten, <<"pauschal">> >>,
       <<kBemerkungen, <<"keine">> >> >>

\* records already in the store file when the application starts, written
\* through Database.save_client
SaveClientStored ==
    /\ ui = "login"
    /\ \E e \in {x \in ExtraInputs : x = <<>> \/ kKundennummer \in KeySet(x)} :
           save_client(FullData, e)

NextContract ==
    \/ SaveClientStored
    \/ HandleRegister
    \/ HandleLogin
    \/ SaveBranding
    \/ OpenContractWindow

SpecContract == Init /\ [][NextContract]_vars

----------------------------------------------------------------------------
(* Tabular export *)

\* what filedialog.asksaveasfilename returns: "" when the dialog is cancelled
FilePaths == {<<>>, <<"kunden.xlsx">>}

\* the sheet of the workbook: the keys of the first client as the header
\* row, then one row per client with client.get(h, "") for every header h
SheetOf(listed) ==
    <<Keys(listed[1])>> \o
    [i \in 1..Len(listed) |->
        [j \in 1..Len(Keys(listed[1])) |->
            GetOr(listed[i], Keys(listed[1])[j], <<>>)]]

\* faulty variant: the workbook saved without the test of file_path
XlsxAfterNoCancelTest(old, listed, file_path) ==
    IF listed = <<>> THEN old
    ELSE [written |-> TRUE, path |-> file_path,
          sheet |-> SheetOf(listed)]

\* the file ClientApp._export_excel leaves behind
XlsxAfter(old, listed, file_path) ==
    IF listed = <<>> THEN old
    ELSE IF file_path = <<>> THEN old
    ELSE [written |-> TRUE, path |-> file_path,
          sheet |-> SheetOf(listed)]

\* ClientApp._export_excel; the success message names xlsx.path
_export_excel(file_path) ==
    /\ ui = "main"
    /\ UNCHANGED <<clients, users, app_settings, ui, form_kundennummer,
                   extra_field_rows, tree, company_name, logo_path,
                   accent_color, contract, strokes, current_stroke, pdf>>
    /\ \E listed \in {list_clients} :
           /\ call' = [op |-> "list_clients", args |-> <<>>, raised |-> "",
                       ret |-> listed]
           /\ xlsx' = XlsxAfter(xlsx, listed, file_path)
           /\ notice' = IF listed = <<>>
                        THEN "info: Keine Kunden zum Exportieren."
                        ELSE IF file_path = <<>> THEN notice
                        ELSE "info: Excel wurde gespeichert: {file_path}"

ExportExcel == \E file_path \in FilePaths : _export_excel(file_path)

NextExport ==
    \/ SaveClientStored
    \/ HandleRegister
    \/ HandleLogin
    \/ SaveClientForm
    \/ ExportExcel

SpecExport == Init /\ [][NextExport]_vars

----------------------------------------------------------------------------
(* SignaturePad and the contract page *)

MaxPoints == 3

\* SignaturePad(container, width=400, height=160)
PadWidth == 400
PadHeight == 160

\* the (event.x, event.y) of the pointer events on the pad
PadPoints == {<<0, 0>>, <<PadWidth, PadHeight>>}

RECURSIVE PointCount(_)
PointCount(ss) ==
    IF ss = <<>> THEN 0 ELSE Len(Head(ss)) + PointCount(Tail(ss))

\* the record in the store when the contract window is opened
SignedRow ==
    [id |-> 1,
     kundennummer |-> FormatKundennummer(1),
     ma |-> Get(FullData, kMa),
     name |-> Get(FullData, kName),
     strasse |-> Get(FullData, kStrasse),
     plz |-> Get(FullData, kPlz),
     ort |-> Get(FullData, kOrt),
     geburtsdatum |-> Get(FullData, kGeburtsdatum),
     pg |-> Get(FullData, kPg),
     versicherungsnummer |-> Get(FullData, kVersicherungsnummer),
     pflegekasse |-> Get(FullData, kPflegekasse),
     telefon |-> Get(FullData, kTelefon),
     preise |-> Get(FullData, kPreise),
     fahrtkosten |-> Get(FullData, kFahrtkosten),
     bemerkungen |-> Get(FullData, kBemerkungen),
     extra_fields |-> json_dumps(<<>>)]

\* the state a session is in once ContractWindow.__init__ has returned: one
\* record in the store, alice registered and logged in, the contract window
\* opened for the only tree item (a state SpecContract reaches)
InitSignature ==
    /\ clients = {SignedRow}
    /\ users = InsertUser({}, Alice, _hash_password(Pw1, <<"5f">>), <<"5f">>)
    /\ app_settings = {}
    /\ call = [op |-> "list_clients", args |-> <<>>, raised |-> "",
               ret |-> ListOf({SignedRow})]
    /\ ui = "main"
    /\ form_kundennummer = NextKundennummerOf({SignedRow})
    /\ extra_field_rows = 0
    /\ tree = TreeOf(ListOf({SignedRow}))
    /\ notice = "info: Konto erstellt."
    /\ company_name = <<>>
    /\ logo_path = <<>>
    /\ accent_color = DEFAULT_ACCENT
    /\ contract = [open |-> TRUE,
                   selected |-> 1,
                   client |-> ListOf({SignedRow})[1],
                   company_name |-> <<>>,
                   logo_path |-> <<>>,
                   accent_color |-> DEFAULT_ACCENT,
                   info_text |-> _compose_contract_text(
                       ListOf({SignedRow})[1], <<>>, <<>>)]
    /\ strokes = <<>>
    /\ current_stroke = <<>>
    /\ pdf = NoFile
    /\ xlsx = NoFile

padframe ==
    <<clients, users, app_settings, call, ui, form_kundennummer,
      extra_field_rows, tree, company_name, logo_path, accent_color,
      contract, xlsx>>

\* SignaturePad._start (ButtonPress-1)
_start(p) ==
    /\ contract.open
    /\ PointCount(strokes) + 1 <= MaxPoints
    /\ current_stroke' = <<p>>
    /\ UNCHANGED <<strokes, pdf, notice>>
    /\ UNCHANGED padframe

StartStroke == \E p \in PadPoints : _start(p)

\* SignaturePad._draw (B1-Motion, delivered between a press and its release)
_draw(p) ==
    /\ contract.open
    /\ current_stroke # <<>>
    /\ PointCount(strokes) + Len(current_stroke) + 1 <= MaxPoints
    /\ current_stroke' = Append(current_stroke, p)
    /\ UNCHANGED <<strokes, pdf, notice>>
    /\ UNCHANGED padframe

DrawStroke == \E p \in PadPoints : _draw(p)

\* SignaturePad._end (ButtonRelease-1)
_end ==
    /\ contract.open
    /\ IF current_stroke # <<>>
       THEN /\ strokes' = Append(strokes, current_stroke)
            /\ current_stroke' = <<>>
       ELSE UNCHANGED <<strokes, current_stroke>>
    /\ UNCHANGED <<pdf, notice>>
    /\ UNCHANGED padframe

\* SignaturePad.clear
clear ==
    /\ contract.open
    /\ strokes' = <<>>
    /\ UNCHANGED <<current_stroke, pdf, notice>>
    /\ UNCHANGED padframe

\* what filedialog.asksaveasfilename returns: "" when the dialog is cancelled
PdfPaths == {<<>>, <<"vertrag.pdf">>}

\* Vertical positions on the page are kept as offsets from its top edge:
\* the code computes them as height - 60, height - 80, ... with height the
\* A4 page height (841.89 pt), and as in the PDF a greater value is higher
\* up on the page.
TitleY == 0 - 60

\* x of every drawString and the horizontal offset of the signature
LeftMargin == 50

\* the drawString calls of ContractWindow._export_pdf, in order
PdfStrings(client) ==
    LET y1 == TitleY
        y2 == y1 - 20
        y3 == y2 - 16
        y4 == y3 - 16
        y5 == y4 - 16
        y6 == y5 - 16
        y7 == y6 - 16
        y8 == y7 - 16
        y9 == y8 - 30
        y10 == y9 - 40
    IN << [x |-> LeftMargin, y |-> y1, s |-> <<"Vertrag">>],
          [x |-> LeftMargin, y |-> y2,
           s |-> <<"Kundennummer:", " ">> \o GetOr(client, kKundennummer, <<>>)],
          [x |-> LeftMargin, y |-> y3,
           s |-> <<"Name:", " ">> \o GetOr(client, kName, <<>>)],
          [x |-> LeftMargin, y |-> y4,
           s |-> <<"Adresse:", " ">> \o GetOr(client, kStrasse, <<>>)
                 \o <<",", " ">> \o GetOr(client, kPlz, <<>>) \o <<" ">>
                 \o GetOr(client, kOrt, <<>>)],
          [x |-> LeftMargin, y |-> y5,
           s |-> <<"Geburtsdatum:", " ">> \o GetOr(client, kGeburtsdatum, <<>>)],
          [x |-> LeftMargin, y |-> y6,
           s |-> <<"Pflegegrad:", " ">> \o GetOr(client, kPg, <<>>)],
          [x |-> LeftMargin, y |-> y7,
           s |-> <<"Versicherungs-Nr.:", " ">>
                 \o GetOr(client, kVersicherungsnummer, <<>>)],
          [x |-> LeftMargin, y |-> y8,
           s |-> <<"Pflegekasse:", " ">> \o GetOr(client, kPflegekasse, <<>>)],
          [x |-> LeftMargin, y |-> y9,
           s |-> <<"Mit", " ", "der", " ", "Unterzeichnung", " ",
                   "bestaetigen", " ", "beide", " ", "Parteien", " ", "den",
                   " ", "Vertrag.">>],
          [x |-> LeftMargin, y |-> y10, s |-> <<"Signatur">>] >>

\* y after the last "y -= 10", the vertical offset of the signature
SignatureY(strings) == strings[Len(strings)].y - 10

\* for i in range(len(stroke) - 1): pdf.line(50 + p1[0], y + p1[1], ...)
StrokeLines(stroke, y) ==
    [i \in 1..(Len(stroke) - 1) |->
        <<LeftMargin + stroke[i][1], y + stroke[i][2],
          LeftMargin + stroke[i + 1][1], y + stroke[i + 1][2]>>]

RECURSIVE Flatten(_)
Flatten(ss) == IF ss = <<>> THEN <<>> ELSE Head(ss) \o Flatten(Tail(ss))

\* faulty variant: the points of all strokes drawn as one polyline
PdfLinesJoined(ss, y) == StrokeLines(Flatten(ss), y)

\* for stroke in self.signature_pad.strokes: ... pdf.line(...)
RECURSIVE PdfLines(_, _)
PdfLines(ss, y) ==
    IF ss = <<>> THEN <<>>
    ELSE StrokeLines(Head(ss), y) \o PdfLines(Tail(ss), y)

\* ContractWindow._export_pdf; the success message names pdf.path
_export_pdf(file_path) ==
    /\ contract.open
    /\ UNCHANGED <<strokes, current_stroke>>
    /\ UNCHANGED padframe
    /\ IF file_path = <<>>
       THEN UNCHANGED <<pdf, notice>>
       ELSE /\ \E strings \in {PdfStrings(contract.client)} :
                  pdf' = [written |-> TRUE,
                          path |-> file_path,
                          strings |-> strings,
                          lines |-> PdfLines(strokes, SignatureY(strings))]
            /\ notice' = "info: PDF gespeichert: {file_path}"

ExportPdf == \E file_path \in PdfPaths : _export_pdf(file_path)

NextSignature ==
    \/ StartStroke
    \/ DrawStroke
    \/ _end
    \/ clear
    \/ ExportPdf

SpecSignature == InitSignature /\ [][NextSignature]_vars

----------------------------------------------------------------------------
(* The main window with the contract lookup *)

NextLookup ==
    \/ HandleRegister
    \/ HandleLogin
    \/ _add_extra_field
    \/ SaveClientForm
    \/ _load_clients
    \/ OpenContractWindow

SpecLookup == Init /\ [][NextLookup]_vars

----------------------------------------------------------------------------
(* C1: in every reachable store state, _next_kundennummer() returns "K-"   *)
(* followed by the 5-digit zero-padded value of (highest numeric suffix    *)
(* among the stored identifiers) + 1, the highest suffix of an empty store *)
(* being 0.  The code takes MAX(id), the row key, instead of the suffix.   *)
C1_NextIsHighestSuffixPlusOne ==
    call.op = "_next_kundennummer" =>
        call.ret = <<"K", "-">> \o ZeroPad(Digits(MaxSuffix + 1), 5)

(* C3: no two stored client rows have the same identifier, and a stored    *)
(* row (hence its identifier) stays in the table unchanged in every later  *)
(* state, whatever save_client calls follow.                               *)
C3_IdentifierUniqueNeverReused ==
    /\ [](\A r, q \in clients : r.kundennummer = q.kundennummer => r = q)
    /\ [][\A r \in clients : r \in clients']_vars

C3_Witness ==
    /\ call.op = "save_client"
    /\ call.raised = "IntegrityError"
    /\ Cardinality(clients) >= 2

(* C4: save_client called with an identifier that is already stored raises *)
(* an error to the caller and leaves the table as it was: no row added, no *)
(* row modified, list_clients() the same before and after.                 *)
C4_DuplicateSaveFailsStoreUnchanged ==
    [][(/\ call'.op = "save_client"
        /\ Supplied(call'.args[1])
        /\ \E r \in clients : r.kundennummer = Get(call'.args[1], kKundennummer))
       => (/\ call'.raised = "IntegrityError"
           /\ clients' = clients
           /\ ListOf(clients') = ListOf(clients))]_vars

C4_Witness ==
    /\ call.op = "save_client"
    /\ Supplied(call.args[1])
    /\ call.raised = "IntegrityError"
    /\ \E r \in clients : r.kundennummer = Get(call.args[1], kKundennummer)

(* C5: list_clients() returns every stored row exactly once, most recent   *)
(* first: it is empty for the empty store, a successful save puts the new  *)
(* record in front of the previous result, and a failed save (or any other *)
(* call) leaves the result as it was.                                      *)
C5_ListReverseInsertionOrder ==
    /\ list_clients = <<>>
    /\ [](Len(list_clients) = Cardinality(clients))
    /\ [][IF call'.op = "save_client" /\ call'.raised = ""
          THEN ListOf(clients') =
                   <<ClientOf(NewRow(call'.args[1], call'.args[2]))>>
                       \o ListOf(clients)
          ELSE ListOf(clients') = ListOf(clients)]_vars

C5_Witness ==
    /\ Cardinality(clients) = 3
    /\ Len(list_clients) = 3
    /\ call.op = "list_clients"
    /\ Get(call.ret[1], kName) # Get(call.ret[3], kName)

(* C6 as claimed: after a successful save_client(F, E) with no key of E a  *)
(* fixed-field name, the newest record of list_clients() has every fixed   *)
(* field (the identifier included) equal to its value in F, an absent one  *)
(* read back as "", every key of E with E's value, and no other key.       *)
C6_RoundTripAllFixedFields ==
    [][(/\ call'.op = "save_client"
        /\ call'.raised = ""
        /\ KeySet(call'.args[2]) \cap FixedKeySet = {})
       => \A F \in {call'.args[1]}, E \in {call'.args[2]},
             rec \in {ListOf(clients')[1]} :
             /\ \A k \in FixedKeySet : Get(rec, k) = OrEmpty(Get(F, k))
             /\ \A k \in KeySet(E) : Get(rec, k) = Get(E, k)
             /\ KeySet(rec) = FixedKeySet \cup KeySet(E)]_vars

(* C6 amended: as above for every fixed field but the identifier; the      *)
(* identifier reads back as the one F supplies when F supplies a non-empty *)
(* one, and as the identifier _next_kundennummer() gave before the save    *)
(* when F omits it or gives "".                                            *)
C6_RoundTrip ==
    [][(/\ call'.op = "save_client"
        /\ call'.raised = ""
        /\ KeySet(call'.args[2]) \cap FixedKeySet = {})
       => \A F \in {call'.args[1]}, E \in {call'.args[2]},
             rec \in {ListOf(clients')[1]} :
             /\ \A k \in FixedKeySet \ {kKundennummer} :
                    Get(rec, k) = OrEmpty(Get(F, k))
             /\ Get(rec, kKundennummer) =
                    IF Supplied(F) THEN Get(F, kKundennummer)
                    ELSE _next_kundennummer
             /\ \A k \in KeySet(E) : Get(rec, k) = Get(E, k)
             /\ KeySet(rec) = FixedKeySet \cup KeySet(E)]_vars

C6_Witness ==
    /\ call.op = "save_client"
    /\ call.raised = ""
    /\ call.args[2] = << <<kHobby, Golf>> >>
    /\ Get(call.args[1], kOrt) = NULL
    /\ Get(list_clients[1], kHobby) = Golf
    /\ Get(list_clients[1], kOrt) = <<>>

(* C7: validate_user(u, p) returns true exactly when a row for u exists    *)
(* and the hash of (p, stored salt) equals the stored hash; once           *)
(* create_user(u, p) has returned true, validate_user(u, p) is true then   *)
(* and in every later state; it is false for a username without a row.     *)
C7_ValidateMatchesStoredHash ==
    /\ [](call.op = "validate_user" =>
            call.ret = (\E r \in users :
                          /\ r.username = call.args[1]
                          /\ r.password_hash =
                                 _hash_password(call.args[2], r.salt)))
    /\ [][(call'.op = "create_user" /\ call'.ret = TRUE)
            => ValidateUserResult(users', call'.args[1], call'.args[2])]_vars
    /\ [][\A u \in Usernames, p \in Passwords :
            ValidateUserResult(users, u, p)
                => ValidateUserResult(users', u, p)]_vars
    /\ [](\A u \in Usernames, p \in Passwords :
            ~UsernameTaken(users, u) => ~ValidateUserResult(users, u, p))

C7_Witness ==
    /\ call.op = "validate_user"
    /\ call.ret = TRUE
    /\ Cardinality(users) = 2
    /\ \E p \in Passwords : ~ValidateUserResult(users, call.args[1], p)

(* C8: create_user(u, p) for a username that already has a row returns     *)
(* false without raising and leaves table users as it was, so the first    *)
(* registration's hash and salt stay; no two rows share a username.        *)
C8_DuplicateUsernameRejected ==
    /\ [](\A r, q \in users : r.username = q.username => r = q)
    /\ [][(call'.op = "create_user" /\ UsernameTaken(users, call'.args[1]))
            => (/\ call'.ret = FALSE
                /\ call'.raised = ""
                /\ users' = users)]_vars

C8_Witness ==
    /\ call.op = "create_user"
    /\ call.ret = FALSE
    /\ ~ValidateUserResult(users, call.args[1], call.args[2])
    /\ \E p \in Passwords : ValidateUserResult(users, call.args[1], p)

(* C9: app_settings holds at most one row per key; load_setting(k, d)      *)
(* returns d while k was never saved and the value of the latest           *)
(* save_setting(k, v) afterwards; save_setting(k, v) changes what is       *)
(* loaded for k only.                                                      *)
C9_SettingsLatestWriteWins ==
    /\ \A k \in SettingKeys, d \in SettingDefaults :
           LoadSettingResult(app_settings, k, d) = d
    /\ [](\A r, q \in app_settings : r.key = q.key => r = q)
    /\ [](call.op = "load_setting" =>
            call.ret = LoadSettingResult(app_settings, call.args[1], call.args[2]))
    /\ [][\A k \in SettingKeys, d \in SettingDefaults :
            LoadSettingResult(app_settings', k, d) =
                IF call'.op = "save_setting" /\ call'.args[1] = k
                THEN call'.args[2]
                ELSE LoadSettingResult(app_settings, k, d)]_vars

C9_Witness ==
    /\ call.op = "load_setting"
    /\ call.ret = <<>>
    /\ call.args[2] = DEFAULT_ACCENT
    /\ Cardinality(app_settings) = 2

----------------------------------------------------------------------------
(* Identifiers as the claims read them *)

\* kn is "K-" followed by the decimal digits of k, zero-padded to 5 digits
IsNumbered(kn, k) ==
    /\ Len(kn) >= 7
    /\ kn[1] = "K"
    /\ kn[2] = "-"
    /\ \A i \in 3..Len(kn) : \E d \in 1..10 : kn[i] = DigitChars[d]
    /\ Len(kn) > 7 => kn[3] # "0"
    /\ SuffixOf(kn) = k

(* C2: from the empty store, as long as every save uses the auto-assigned  *)
(* identifier (omitted by the caller, or the form's identifier field, set  *)
(* from _next_kundennummer() after the previous save), no save fails, the  *)
(* k-th inserted row carries identifier number k, and with N rows stored   *)
(* _next_kundennummer() is number N + 1 ("K-00001" for the empty store).   *)
C2_AutoAssignedSequential ==
    LET N == Cardinality(clients)
    IN /\ call.raised = ""
       /\ {r.id : r \in clients} = 1..N
       /\ \A r \in clients : IsNumbered(r.kundennummer, r.id)
       /\ IsNumbered(_next_kundennummer, N + 1)
       /\ N = 0 => _next_kundennummer = <<"K", "-", "0", "0", "0", "0", "1">>
       /\ ui = "main" => form_kundennummer = _next_kundennummer

C2_Witness ==
    /\ Cardinality(clients) = 3
    /\ ui = "main"
    /\ \E r \in clients : r.id = 1 /\ r.ma = NULL
    /\ \E r \in clients : r.id = 3 /\ r.ma = <<>>

(* C10: a _save_client whose name field is empty after trimming shows the  *)
(* warning and writes nothing (table clients, the tree and the form stay   *)
(* as they were), and no stored client row ever has an empty name.         *)
C10_EmptyNameSaveAborted ==
    /\ [](\A r \in clients : r.name # NULL /\ r.name # <<>>)
    /\ [][\A form \in FormInputs :
            \A rows \in [1..extra_field_rows -> ExtraRowInputs] :
                (Strip(form[1]) = <<>> /\ _save_client(form, rows))
                    => (/\ notice' = WarnName
                        /\ clients' = clients
                        /\ tree' = tree
                        /\ form_kundennummer' = form_kundennummer)]_vars

C10_Witness ==
    /\ notice = WarnName
    /\ extra_field_rows = 1
    /\ Cardinality(clients) = 2


----------------------------------------------------------------------------
(* Contract text *)

\* the lines of a text, split at the line breaks
RECURSIVE SplitLines(_)
SplitLines(text) ==
    LET breaks == {i \in 1..Len(text) : text[i] = "\n"}
    IN IF breaks = {} THEN <<text>>
       ELSE LET b == CHOOSE i \in breaks : \A j \in breaks : i <= j
            IN <<SubSeq(text, 1, b - 1)>>
               \o SplitLines(SubSeq(text, b + 1, Len(text)))

\* value occurs in line behind at least one leading chunk of label
OccursAfterLabel(line, value) ==
    \E i \in 2..Len(line) :
        /\ i + Len(value) - 1 <= Len(line)
        /\ SubSeq(line, i, i + Len(value) - 1) = value

OccursIn(line, value) ==
    \E i \in 1..Len(line) :
        /\ i + Len(value) - 1 <= Len(line)
        /\ SubSeq(line, i, i + Len(value) - 1) = value

AllFixedPopulated(client) ==
    \A k \in FixedKeySet : GetOr(client, k, <<>>) # <<>>

\* the fixed fields the contract text has a line for, and the others
ShownKeys ==
    {kKundennummer, kName, kStrasse, kPlz, kOrt, kGeburtsdatum, kPg,
     kVersicherungsnummer, kPflegekasse}

OmittedKeys == FixedKeySet \ ShownKeys

AnbieterLines(lines) ==
    {i \in 1..Len(lines) : lines[i] # <<>> /\ lines[i][1] = "Anbieter:"}

AnbieterAsClaimed(lines, company) ==
    IF company = <<>> THEN AnbieterLines(lines) = {}
    ELSE /\ Cardinality(AnbieterLines(lines)) = 1
         /\ \A i \in AnbieterLines(lines) :
                lines[i] = <<"Anbieter:", " ">> \o company

(* C11 as stated: for a record with all fixed fields populated, the composed
   contract text contains every fixed field's value behind a label, has no
   Anbieter line when the company name is empty and exactly one line
   "Anbieter: <company name>" otherwise. *)
C11_TextHasEveryFixedField ==
    contract.open =>
        \A lines \in {SplitLines(contract.info_text)} :
            AllFixedPopulated(contract.client) =>
                /\ \A k \in FixedKeySet :
                       \E i \in 1..Len(lines) :
                           OccursAfterLabel(lines[i], Get(contract.client, k))
                /\ AnbieterAsClaimed(lines, contract.company_name)

(* C11 amended: for a record with all fixed fields populated, the composed
   contract text has the lines "Kundennummer: <kundennummer>", "Name: <name>",
   "Strasse / Ort: <strasse>, <plz> <ort>", "Geburtsdatum: <geburtsdatum>",
   "Pflegegrad: <pg>", "Versicherungs-Nr.: <versicherungsnummer>" and
   "Pflegekasse: <pflegekasse>"; the values of ma, telefon, preise,
   fahrtkosten and bemerkungen are on no line of it; it has no Anbieter line
   when the company name is empty and exactly one line
   "Anbieter: <company name>" otherwise. *)
C11_TextHasShownFields ==
    contract.open =>
        \A lines \in {SplitLines(contract.info_text)} :
        \A c \in {contract.client} :
            AllFixedPopulated(c) =>
                /\ \A line \in
                       { <<"Kundennummer:", " ">> \o Get(c, kKundennummer),
                         <<"Name:", " ">> \o Get(c, kName),
                         <<"Strasse", " ", "/", " ", "Ort:", " ">>
                             \o Get(c, kStrasse) \o <<",", " ">>
                             \o Get(c, kPlz) \o <<" ">> \o Get(c, kOrt),
                         <<"Geburtsdatum:", " ">> \o Get(c, kGeburtsdatum),
                         <<"Pflegegrad:", " ">> \o Get(c, kPg),
                         <<"Versicherungs-Nr.:", " ">>
                             \o Get(c, kVersicherungsnummer),
                         <<"Pflegekasse:", " ">> \o Get(c, kPflegekasse) } :
                       \E i \in 1..Len(lines) : lines[i] = line
                /\ \A k \in ShownKeys :
                       \E i \in 1..Len(lines) :
                           OccursAfterLabel(lines[i], Get(c, k))
                /\ \A k \in OmittedKeys :
                       \A i \in 1..Len(lines) : ~OccursIn(lines[i], Get(c, k))
                /\ AnbieterAsClaimed(lines, contract.company_name)

\* a contract window open for a fully populated record, a company name set
C11_Witness ==
    /\ contract.open
    /\ AllFixedPopulated(contract.client)
    /\ contract.company_name # <<>>
    /\ AnbieterLines(SplitLines(contract.info_text)) # {}

----------------------------------------------------------------------------
(* C12: the tabular export writes a file only when the record list is not
   empty and a destination path is supplied: with zero records it writes no
   file and reports the informational notice, with records and no path it
   writes no file and reports nothing, and it never changes the store. *)
C12_ExportOnlyWithRecordsAndPath ==
    [][\A p \in FilePaths :
           _export_excel(p) =>
               /\ clients' = clients
               /\ users' = users
               /\ app_settings' = app_settings
               /\ (clients = {} =>
                       /\ xlsx' = xlsx
                       /\ notice' = "info: Keine Kunden zum Exportieren.")
               /\ (clients # {} /\ p = <<>> =>
                       /\ xlsx' = xlsx
                       /\ notice' = notice)
               /\ (xlsx' # xlsx =>
                       /\ clients # {}
                       /\ p # <<>>
                       /\ xlsx'.written
                       /\ xlsx'.path = p)]_vars

\* an export of the empty store has reported its notice and left no file
C12_Witness ==
    /\ ui = "main"
    /\ clients = {}
    /\ call.op = "list_clients"
    /\ notice = "info: Keine Kunden zum Exportieren."
    /\ xlsx = NoFile

----------------------------------------------------------------------------
(* Signature segments *)

\* the number of segments the strokes before stroke s account for
RECURSIVE SegmentsBefore(_, _)
SegmentsBefore(ss, s) ==
    IF s <= 1 THEN 0
    ELSE SegmentsBefore(ss, s - 1)
         + (IF Len(ss[s - 1]) >= 2 THEN Len(ss[s - 1]) - 1 ELSE 0)

\* segment: <<x1, y1, x2, y2>> joins p and q, both moved by <<dx, dy>>
JoinsMoved(segment, p, q, dx, dy) ==
    /\ segment[1] = p[1] + dx
    /\ segment[2] = p[2] + dy
    /\ segment[3] = q[1] + dx
    /\ segment[4] = q[2] + dy

(* C13: the contract export redraws the signature stroke by stroke: a stroke
   of n >= 2 points contributes exactly the n-1 segments (p_i, p_i+1) in
   order, every endpoint moved by one and the same offset; a stroke of fewer
   than 2 points contributes none; no segment joins points of two strokes. *)
C13_SegmentsStrokeByStroke ==
    [][\A p \in PdfPaths \ {<<>>} :
           _export_pdf(p) =>
               \E dx \in {pdf'.strings[1].x} :
               \E dy \in {pdf'.strings[Len(pdf'.strings)].y - 10} :
                   /\ Len(pdf'.lines) = SegmentsBefore(strokes, Len(strokes) + 1)
                   /\ \A s \in 1..Len(strokes) :
                      \A i \in 1..(Len(strokes[s]) - 1) :
                          JoinsMoved(pdf'.lines[SegmentsBefore(strokes, s) + i],
                                     strokes[s][i], strokes[s][i + 1], dx, dy)]_vars

\* a page exported for a one-point stroke followed by a two-point stroke
C13_Witness ==
    /\ pdf.written
    /\ Len(strokes) = 2
    /\ Len(strokes[1]) = 1
    /\ Len(strokes[2]) = 2
    /\ Len(pdf.lines) = 1

(* C14: on the exported contract page every signature segment endpoint, for
   captured points with x in 0..400 and y in 0..160, is lower on the page
   than the "Signatur" heading, the last text line drawn. *)
C14_SignatureBelowText ==
    pdf.written =>
        \A k \in 1..Len(pdf.lines) :
            /\ pdf.lines[k][2] < pdf.strings[Len(pdf.strings)].y
            /\ pdf.lines[k][4] < pdf.strings[Len(pdf.strings)].y

----------------------------------------------------------------------------
(* C15: whenever a contract is opened for a tree item, the records that
   list_clients returns carry pairwise distinct kundennummer values, each
   the identifier stored for its record, also for records saved with an
   extra field named like a fixed field; the lookup by identifier then finds
   exactly one record, the selected one. *)
C15_LookupFindsSelected ==
    [][\A sel \in 1..Len(tree) :
           _open_contract_window(sel) =>
               \A listed \in {list_clients} :
               \A stored \in {OrderByIdDesc(clients)} :
                   /\ \A i, j \in 1..Len(listed) :
                          i # j => Get(listed[i], kKundennummer)
                                   # Get(listed[j], kKundennummer)
                   /\ \A i \in 1..Len(listed) :
                          Get(listed[i], kKundennummer) = stored[i].kundennummer
                   /\ Cardinality({i \in 1..Len(listed) :
                          Get(listed[i], kKundennummer) = tree[sel][1]}) = 1
                   /\ contract'.open
                   /\ contract'.selected = sel
                   /\ contract'.client = listed[sel]]_vars

====
